---- MODULE Spec2Model ----
(***************************************************************************)
(* Model of the resilient iteration loop (lib/iterationLoop.js) and of the *)
(* request pipeline (schemas/agentOrchestrator.js, processUserRequest).    *)
(*                                                                         *)
(* Spec / FairSpec : one run of executeStepsWithResilience.                *)
(* RequestSpec     : one call of processUserRequest or orchestrateQuery.   *)
(* PlanSpec        : executePlanWithResilience on any plan value.          *)
(* CancelSpec, DryRunSpec, LongRunSpec, TwoRunsSpec : the run with a       *)
(*                   cancelling caller, with dryRun among its options,     *)
(*                   with room for six failures, beside a second run.      *)
(* TelegramSpec    : the approval-enabled Telegram bot.                    *)
(***************************************************************************)
EXTENDS Integers, Sequences, FiniteSets, TLC

(***************************************************************************)
(* Bounds of the model.                                                    *)
(***************************************************************************)
MaxPlanLen == 2        \* longest input plan
MaxIterBound == 3      \* largest value drawn for the maxIterations option
MaxFailBound == 2      \* largest value drawn for maxConsecutiveFailures
MaxQueryLen == 2       \* longest user query, in tokens
MaxUpdates == 3        \* most updates the Telegram bot receives
MaxClock == 2          \* latest time the bot's clock reaches, in units of 5 minutes
LongRunIterations == 6 \* maxIterations of the long run: room for a sixth failure

\* All sequences over S of length 0..n
RECURSIVE SeqsUpTo(_, _)
SeqsUpTo(S, n) ==
  IF n = 0 THEN {<<>>}
  ELSE LET shorter == SeqsUpTo(S, n - 1)
       IN  shorter \cup {Append(s, x) : s \in {t \in shorter : Len(t) = n - 1}, x \in S}

(***************************************************************************)
(* The Oracle (queryOpenAI).  A call either raises, or returns null, or    *)
(* returns an object with a `choice`, a `response` field and a `code`      *)
(* field.  A field is absent (falsy), a string, or a truthy non-string.    *)
(* A string is a sequence of lines; the empty string is falsy.             *)
(***************************************************************************)
\* lines of an Oracle reply: a numbered line, a numbered line with leading
\* blanks, and a line of prose
NumberedLine == [numbered |-> TRUE, indent |-> FALSE, body |-> "b"]
IndentedLine == [numbered |-> TRUE, indent |-> TRUE, body |-> "c"]
ProseLine == [numbered |-> FALSE, indent |-> FALSE, body |-> "note"]

\* the reply texts tried: the empty string, one step, prose only, and prose
\* followed by two steps
Texts ==
  { <<>>, <<NumberedLine>>, <<ProseLine>>, <<ProseLine, NumberedLine, IndentedLine>> }

Absent == [t |-> "absent", lines |-> <<>>]
NonString == [t |-> "nonstring", lines |-> <<>>]
Str(lines) == [t |-> "string", lines |-> lines]

\* JS truthiness of a field: absent and "" are falsy
Truthy(f) == f.t = "nonstring" \/ (f.t = "string" /\ Len(f.lines) > 0)
\* a || b
OrElse(f, g) == IF Truthy(f) THEN f ELSE g

Raise == [kind |-> "raise", choice |-> "none", response |-> Absent, code |-> Absent]
NullReply == [kind |-> "null", choice |-> "none", response |-> Absent, code |-> Absent]
Obj(c, r, k) == [kind |-> "obj", choice |-> c, response |-> r, code |-> k]

Choices == {"terminalCommand", "code", "response", "other"}

StepReplies ==
  {Raise, NullReply} \cup {Obj(c, Absent, Absent) : c \in Choices} \cup
  {Obj("response", Str(<<ProseLine>>), Absent), Obj("code", Absent, Str(<<ProseLine>>))}

\* response / code pairs tried for a recovery reply: neither, an empty string,
\* a text, a non-string response, a non-string code
RecoveryFields ==
  { <<Absent, Absent>>, <<Str(<<>>), Absent>>, <<Str(<<ProseLine>>), Absent>>,
    <<NonString, Absent>>, <<Absent, NonString>> }

RecoveryReplies ==
  {Raise, NullReply} \cup
  {Obj(c, f[1], f[2]) : c \in {"terminalCommand", "response"}, f \in RecoveryFields}

ReassessReplies ==
  {Raise, NullReply} \cup
  {Obj("response", r, Absent) : r \in {Absent, NonString} \cup {Str(t) : t \in Texts}} \cup
  {Obj("code", r, Absent) : r \in {Absent, NonString, Str(<<NumberedLine>>)}}

(***************************************************************************)
(* The command runner (lib/terminalExecutor.js, executeAgentCommand).      *)
(***************************************************************************)
CommandStatuses == {"success", "error", "blocked", "denied", "dry-run", "timeout"}

\* the gate with the destructive-pattern check left out
ExecuteAgentCommandUngated(destructive, dryRun) ==
  IF dryRun THEN {"dry-run", "denied"}
  ELSE {"success", "error", "denied", "timeout", "raise"}

\* what a call may produce: a CommandResult status, or an exception.  A
\* command matching a destructive pattern is blocked whatever the flags are;
\* in dry-run mode no process is spawned.
ExecuteAgentCommand(destructive, dryRun) ==
  IF destructive THEN {"blocked"}
  ELSE IF dryRun THEN {"dry-run", "denied"}
  ELSE {"success", "error", "denied", "timeout", "raise"}

\* the statuses of a command that was handed to a process
Spawned == {"success", "error", "timeout"}

(***************************************************************************)
(* executeStep: one Oracle call and, for a terminalCommand, one command    *)
(* execution; every exception (the Oracle raising, a null reply, the       *)
(* runner raising) is caught and folded into the result.                   *)
(* `success` is a JS value: "true", "false" or "undefined" (never set).    *)
(* `choice` is result.response.choice ("none" when the catch built the     *)
(* result); `output` tells whether result.executionResult || result.code   *)
(* || result.message is a value or undefined.                              *)
(***************************************************************************)
Caught(msg) ==
  [success |-> "false", executed |-> FALSE, error |-> msg, status |-> "none",
   choice |-> "none", output |-> "undefined"]

ExecuteStep(reply, cmd) ==
  IF reply.kind \in {"raise", "null"} THEN Caught("error.message")
  ELSE IF reply.choice = "terminalCommand" THEN
         IF cmd = "raise" THEN Caught("error.message")
         ELSE [success |-> IF cmd = "success" THEN "true" ELSE "false",
               executed |-> TRUE, error |-> "undefined", status |-> cmd,
               choice |-> reply.choice, output |-> "value"]
  ELSE IF reply.choice = "code" THEN
         [success |-> "true", executed |-> TRUE, error |-> "undefined", status |-> "none",
          choice |-> reply.choice,
          output |-> IF Truthy(reply.code) THEN "value" ELSE "undefined"]
  ELSE IF reply.choice = "response" THEN
         [success |-> "true", executed |-> TRUE, error |-> "undefined", status |-> "none",
          choice |-> reply.choice,
          output |-> IF reply.response = Absent THEN "undefined" ELSE "value"]
  ELSE [success |-> "undefined", executed |-> FALSE, error |-> "undefined", status |-> "none",
        choice |-> reply.choice, output |-> "undefined"]

\* the test taking every result without an error message for a success
StepSucceededUnlessError(res) == res.error = "undefined"

\* if (result.success)
StepSucceeded(res) == res.success = "true"

\* result.error || 'Unknown error'
ErrorText(res) == IF res.error = "undefined" THEN "Unknown error" ELSE res.error

(***************************************************************************)
(* createRecoverySolution                                                  *)
(***************************************************************************)
DefaultSolution == Str(<<[numbered |-> FALSE, indent |-> FALSE, body |-> "Retry with modifications"]>>)

CreateRecoverySolution(reply) ==
  IF reply.kind \in {"raise", "null"}
  THEN [success |-> FALSE, recoverySolution |-> Absent, recoveryAction |-> reply]
  ELSE [success |-> TRUE,
        recoverySolution |-> OrElse(reply.response, OrElse(reply.code, DefaultSolution)),
        recoveryAction |-> reply]

(***************************************************************************)
(* reassessPlan                                                            *)
(***************************************************************************)
\* line.replace(/^\d+\.\s*/, '').trim(): the number is stripped only when
\* it starts the untrimmed line
KeepNumber(body) ==
  CASE body = "b" -> "1. b"
    [] body = "c" -> "1. c"
    [] OTHER -> body

StripNumber(line) == IF line.indent THEN KeepNumber(line.body) ELSE line.body

\* lines.filter(line => /^\d+\./.test(line.trim())).map(...)
RECURSIVE ParseRevisedSteps(_)
ParseRevisedSteps(lines) ==
  IF lines = <<>> THEN <<>>
  ELSE IF Head(lines).numbered
       THEN <<StripNumber(Head(lines))>> \o ParseRevisedSteps(Tail(lines))
       ELSE ParseRevisedSteps(Tail(lines))

DefaultReasoning == Str(<<[numbered |-> FALSE, indent |-> FALSE, body |-> "Plan reassessed"]>>)

ReassessFailed(tail) ==
  [success |-> FALSE, revisedSteps |-> tail, reasoning |-> Absent, parsed |-> 0]

\* reassessPlan returning whatever it parsed, even nothing
ReassessPlanKeepsParsed(tail, reply) ==
  IF reply.kind \in {"raise", "null"} THEN ReassessFailed(tail)
  ELSE IF reply.choice = "response" /\ Truthy(reply.response) /\ reply.response.t = "nonstring"
       THEN ReassessFailed(tail)
  ELSE LET parsed == IF reply.choice = "response" /\ Truthy(reply.response)
                     THEN ParseRevisedSteps(reply.response.lines)
                     ELSE <<>>
       IN  [success |-> TRUE,
            revisedSteps |-> parsed,
            reasoning |-> OrElse(reply.response, DefaultReasoning),
            parsed |-> Len(parsed)]

ReassessPlan(tail, reply) ==
  IF reply.kind \in {"raise", "null"} THEN ReassessFailed(tail)
  ELSE IF reply.choice = "response" /\ Truthy(reply.response) /\ reply.response.t = "nonstring"
       THEN ReassessFailed(tail)      \* response.response.split is not a function
  ELSE LET parsed == IF reply.choice = "response" /\ Truthy(reply.response)
                     THEN ParseRevisedSteps(reply.response.lines)
                     ELSE <<>>
       IN  [success |-> TRUE,
            revisedSteps |-> IF Len(parsed) > 0 THEN parsed ELSE tail,
            reasoning |-> OrElse(reply.response, DefaultReasoning),
            parsed |-> Len(parsed)]

\* array.slice(-n)
SliceLast(s, n) == IF Len(s) <= n THEN s ELSE SubSeq(s, Len(s) - n + 1, Len(s))

\* context.failures.slice(-5)
RecentFailures == 5

\* lines 155-173: what the reassessment prompt holds of the plan and of the
\* history: every step it was given, the two counts, and the recent failures
ReassessPrompt(tail, completed, failed) ==
  [plan |-> tail, completedCount |-> Len(completed), failedCount |-> Len(failed),
   recentFailures |-> SliceLast(failed, RecentFailures)]

(***************************************************************************)
(* Helpers of executeStepsWithResilience                                   *)
(***************************************************************************)
\* array.slice(from)
SliceFrom(s, from) == SubSeq(s, from + 1, Len(s))
\* array.slice(0, to)
SliceTo(s, to) == SubSeq(s, 1, to)

\* the loop test without the iteration ceiling
LoopConditionNoCeiling(idx, len, it, maxIt) == idx < len

\* while (currentStepIndex < currentSteps.length && iteration < maxIterations)
LoopCondition(idx, len, it, maxIt) == idx < len /\ it < maxIt

\* the cursor left where it is
AdvanceIndexStays(idx) == idx

\* the cursor moved past two steps
AdvanceIndexByTwo(idx) == idx + 2

\* currentStepIndex++
AdvanceIndex(idx) == idx + 1

\* the threshold test with > for >=
ThresholdReachedStrict(cf, maxCf) == cf > maxCf

\* the threshold test passed by any failure
ThresholdReachedAtOnce(cf, maxCf) == cf >= 1

\* if (consecutiveFailures >= maxConsecutiveFailures)
ThresholdReached(cf, maxCf) == cf >= maxCf

\* the whole plan replaced by the revised steps
RevisedPlanDropsPrefix(plan, idx, revised) == revised

\* [...currentSteps.slice(0, currentStepIndex), ...reassessment.revisedSteps]
RevisedPlan(plan, idx, revised) == SliceTo(plan, idx) \o revised

\* (context.completedSteps.length / currentSteps.length) * 100 as a JS number:
\* 0 / 0 is NaN, otherwise the rational num / den
SuccessRate(done, total) ==
  IF total = 0 THEN [nan |-> TRUE, num |-> 0, den |-> 1]
  ELSE [nan |-> FALSE, num |-> done * 100, den |-> total]

\* the ceiling test with > for >=
ReachedMaxIterationsStrict(it, maxIt) == it > maxIt

\* const reachedMaxIterations = iteration >= maxIterations
ReachedMaxIterations(it, maxIt) == it >= maxIt

\* const allCompleted = currentStepIndex >= currentSteps.length
AllCompleted(idx, len) == idx >= len

\* array.push(entry) that overwrites the last entry
PushOverLast(arr, entry) ==
  IF arr = <<>> THEN <<entry>> ELSE [arr EXCEPT ![Len(arr)] = entry]

\* array.push(entry)
Push(arr, entry) == Append(arr, entry)

\* a call is made: one more promise is outstanding
CallIssued(n) == n + 1

\* a call whose promise is never awaited: the run goes on while it is outstanding
CallReturnedNotAwaited(n) == n

\* `await`: the run is resumed when the call has returned
CallReturned(n) == n - 1

\* x.substring(...) raises a TypeError when x is not a string
SubstringThrows(f) == f.t # "string"

(***************************************************************************)
(* State of one call of processUserRequest                                 *)
(***************************************************************************)
VARIABLES
  userQuery,        \* the raw query
  skipPersonality, skipRedaction, skipMemory,
  autoApprove, dryRun, allowDangerous,
  lumenPersonality, \* the personality layer's reply (null until it has returned)
  enhancedQuery,
  safeQuery,
  redactorMap,      \* the mapping held by `redactor`
  oracleCalls,      \* every queryOpenAI call made so far: which layer, which text
  routingDecision,
  aiResponse,
  executions,       \* every executeAgentCommand call made so far
  memoryLog,        \* interactions stored by memorySystem.addInteraction
  response,         \* the returned object
  orchestrated,     \* the object returned by orchestrateQuery
  rpc               \* where the call is suspended

reqVars ==
  <<userQuery, skipPersonality, skipRedaction, skipMemory, autoApprove, dryRun,
    allowDangerous, lumenPersonality, enhancedQuery, safeQuery, redactorMap, oracleCalls, routingDecision,
    aiResponse, executions, memoryLog, response, orchestrated, rpc>>

reqConfig ==
  <<userQuery, skipPersonality, skipRedaction, skipMemory, autoApprove, dryRun,
    allowDangerous>>

(***************************************************************************)
(* State of one run of executeStepsWithResilience                          *)
(***************************************************************************)
VARIABLES
  steps,                  \* the `steps` argument
  maxIterations,          \* options.maxIterations
  maxConsecutiveFailures, \* options.maxConsecutiveFailures
  verify,                 \* options.verify
  currentSteps,           \* the mutable plan
  currentStepIndex,       \* the cursor (0-based)
  iteration,
  consecutiveFailures,
  completedSteps,         \* context.completedSteps
  failures,               \* context.failures
  recoveryAttempts,       \* context.recoveryAttempts
  reassessments,          \* context.reassessments
  result,                 \* const result = await executeStep(...)
  recovery,               \* const recovery = await createRecoverySolution(...)
  reassessment,           \* const reassessment = await reassessPlan(...)
  summary,                \* the returned object
  outstanding,            \* Oracle calls and commands awaited and not yet returned
  pc                      \* where the run is suspended

loopVars ==
  <<steps, maxIterations, maxConsecutiveFailures, verify, currentSteps,
    currentStepIndex, iteration, consecutiveFailures, completedSteps, failures,
    recoveryAttempts, reassessments, result, recovery, reassessment, summary,
    outstanding, pc>>

(***************************************************************************)
(* State around the run: the argument of executePlanWithResilience, a      *)
(* cancellation signal held by the caller, and the context of a second     *)
(* invocation of executeStepsWithResilience running in the same process.   *)
(***************************************************************************)
VARIABLES
  planResponse,           \* the argument of executePlanWithResilience
  cancelRequested,        \* a cancellation signal raised by the caller
  otherRun,               \* the locals of a second, concurrent invocation
  optionsDryRun           \* options.dryRun as the caller of the loop set it

callerVars == <<planResponse, cancelRequested, otherRun, optionsDryRun>>

(***************************************************************************)
(* State of the approval-enabled Telegram bot                              *)
(***************************************************************************)
VARIABLES
  pendingCommands,        \* Map chatId -> { command, reasoning, timestamp, ... }
  now,                    \* Date.now()
  handlers,               \* the handlers suspended at an await
  botExecutions,          \* every executeAgentCommand call made for the bot
  messages,               \* the command messages sent, by message_id
  updates                 \* number of updates (messages, button presses) received

botVars == <<pendingCommands, now, handlers, botExecutions, messages, updates>>

outsideLoop == <<reqVars, callerVars, botVars>>
outsideRequest == <<loopVars, callerVars, botVars>>
outsideBot == <<loopVars, reqVars, callerVars>>

None == [success |-> "none"]


NoSummary == [returned |-> FALSE]

\* the input plans: n distinct step descriptions
StepName(i) ==
  CASE i = 1 -> "s1" [] i = 2 -> "s2" [] i = 3 -> "s3" [] i = 4 -> "s4" [] OTHER -> "s5"

Plan(n) == [i \in 1..n |-> StepName(i)]

\* lines 215-242
LoopInit ==
  /\ steps \in {Plan(n) : n \in 0..MaxPlanLen}
  /\ maxIterations \in 1..MaxIterBound
  /\ maxConsecutiveFailures \in 1..MaxFailBound
  /\ verify \in BOOLEAN
  /\ currentSteps = steps
  /\ currentStepIndex = 0
  /\ iteration = 0
  /\ consecutiveFailures = 0
  /\ completedSteps = <<>>
  /\ failures = <<>>
  /\ recoveryAttempts = <<>>
  /\ reassessments = 0
  /\ result = None
  /\ recovery = None
  /\ reassessment = None
  /\ summary = NoSummary
  /\ outstanding = 0
  /\ pc = "loop"

config == <<steps, maxIterations, maxConsecutiveFailures, verify>>
context == <<completedSteps, failures, recoveryAttempts, reassessments>>
locals == <<result, recovery, reassessment>>

\* the locals of the loop body go out of scope when the body ends, normally
\* or by an exception
EndOfBody == result' = None /\ recovery' = None /\ reassessment' = None

\* the object built at lines 423-436
Summary(verification) ==
  [returned |-> TRUE,
   success |-> AllCompleted(currentStepIndex, Len(currentSteps)),
   completed |-> AllCompleted(currentStepIndex, Len(currentSteps)),
   reachedMaxIterations |-> ReachedMaxIterations(iteration, maxIterations),
   totalSteps |-> Len(currentSteps),
   completedSteps |-> completedSteps,
   failureCount |-> Len(failures),
   failures |-> failures,
   recoveryAttempts |-> recoveryAttempts,
   reassessments |-> reassessments,
   iterations |-> iteration,
   successRate |-> SuccessRate(Len(completedSteps), Len(currentSteps)),
   verification |-> verification]

NoVerification == [fulfilled |-> "null", error |-> FALSE]

\* lines 244-255: the loop test holds; the iteration starts and calls executeStep
EnterIteration ==
  /\ pc = "loop"
  /\ LoopCondition(currentStepIndex, Len(currentSteps), iteration, maxIterations)
  /\ iteration' = iteration + 1
  /\ pc' = "executeStep"
  /\ UNCHANGED <<config, currentSteps, currentStepIndex, consecutiveFailures, context,
                 locals, summary>>
  /\ outstanding' = CallIssued(outstanding)
  /\ UNCHANGED outsideLoop

\* lines 388-436: the loop test fails; the summary is returned unless the
\* verification is awaited first
ExitLoop ==
  /\ pc = "loop"
  /\ ~LoopCondition(currentStepIndex, Len(currentSteps), iteration, maxIterations)
  /\ IF verify /\ AllCompleted(currentStepIndex, Len(currentSteps))
     THEN /\ pc' = "verify"
          /\ summary' = summary
     ELSE /\ pc' = "done"
          /\ summary' = Summary(NoVerification)
  /\ UNCHANGED <<config, currentSteps, currentStepIndex, iteration, consecutiveFailures,
                 context, locals>>
  /\ outstanding' = IF pc' = "verify" THEN CallIssued(outstanding) ELSE outstanding
  /\ UNCHANGED outsideLoop

\* line 255: executeStep returns its result
ExecuteStepReturns ==
  /\ pc = "executeStep"
  /\ \E reply \in StepReplies, destructive \in BOOLEAN :
       \E cmd \in ExecuteAgentCommand(destructive, FALSE) : result' = ExecuteStep(reply, cmd)
  /\ pc' = "result"
  /\ UNCHANGED <<config, currentSteps, currentStepIndex, iteration, consecutiveFailures,
                 context, recovery, reassessment, summary>>
  /\ outstanding' = CallReturned(outstanding)
  /\ UNCHANGED outsideLoop

\* StepSuccess without the reset of consecutiveFailures
StepSuccessKeepsStreak ==
  /\ pc = "result"
  /\ StepSucceeded(result)
  /\ completedSteps' = Push(completedSteps,
        [step |-> currentSteps[currentStepIndex + 1], iteration |-> iteration,
         status |-> "success", result |-> result.output])
  /\ currentStepIndex' = AdvanceIndex(currentStepIndex)
  /\ pc' = "loop"
  /\ EndOfBody
  /\ UNCHANGED <<config, currentSteps, iteration, consecutiveFailures, failures,
                 recoveryAttempts, reassessments, summary>>
  /\ UNCHANGED outstanding
  /\ UNCHANGED outsideLoop

\* lines 257-283: result.success is truthy
StepSuccess ==
  /\ pc = "result"
  /\ StepSucceeded(result)
  /\ completedSteps' = Push(completedSteps,
        [step |-> currentSteps[currentStepIndex + 1], iteration |-> iteration,
         status |-> "success", result |-> result.output])
  /\ consecutiveFailures' = 0
  /\ currentStepIndex' = AdvanceIndex(currentStepIndex)
  /\ pc' = "loop"
  /\ EndOfBody
  /\ UNCHANGED <<config, currentSteps, iteration, failures, recoveryAttempts,
                 reassessments, summary>>
  /\ UNCHANGED outstanding
  /\ UNCHANGED outsideLoop

\* StepFailure without the push onto context.failures
StepFailureUnrecorded ==
  /\ pc = "result"
  /\ ~StepSucceeded(result)
  /\ consecutiveFailures' = consecutiveFailures + 1
  /\ pc' = IF ThresholdReached(consecutiveFailures', maxConsecutiveFailures)
           THEN "reassessPlan" ELSE "createRecoverySolution"
  /\ UNCHANGED <<config, currentSteps, currentStepIndex, iteration, context, locals, summary>>
  /\ outstanding' = CallIssued(outstanding)
  /\ UNCHANGED outsideLoop

\* lines 285-314, 339-343: result.success is falsy; reassessPlan or
\* createRecoverySolution is called
StepFailure ==
  /\ pc = "result"
  /\ ~StepSucceeded(result)
  /\ consecutiveFailures' = consecutiveFailures + 1
  /\ failures' = Push(failures,
        [step |-> currentSteps[currentStepIndex + 1], iteration |-> iteration,
         error |-> ErrorText(result)])
  /\ pc' = IF ThresholdReached(consecutiveFailures', maxConsecutiveFailures)
           THEN "reassessPlan" ELSE "createRecoverySolution"
  /\ UNCHANGED <<config, currentSteps, currentStepIndex, iteration, completedSteps,
                 recoveryAttempts, reassessments, locals, summary>>
  /\ outstanding' = CallIssued(outstanding)
  /\ UNCHANGED outsideLoop

\* lines 311-314: reassessPlan returns its result
ReassessPlanReturns ==
  /\ pc = "reassessPlan"
  /\ \E reply \in ReassessReplies :
       reassessment' = ReassessPlan(SliceFrom(currentSteps, currentStepIndex), reply)
  /\ pc' = "reassessment"
  /\ UNCHANGED <<config, currentSteps, currentStepIndex, iteration, consecutiveFailures,
                 context, result, recovery, summary>>
  /\ outstanding' = CallReturned(outstanding)
  /\ UNCHANGED outsideLoop

\* ApplyReassessment without the reset of consecutiveFailures
ApplyReassessmentNoReset ==
  /\ pc = "reassessment"
  /\ IF reassessment.success
     THEN /\ reassessments' = reassessments + 1
          /\ IF SubstringThrows(reassessment.reasoning)
             THEN /\ pc' = "thrown"
                  /\ EndOfBody
                  /\ UNCHANGED currentSteps
             ELSE /\ currentSteps' = RevisedPlan(currentSteps, currentStepIndex,
                                                 reassessment.revisedSteps)
                  /\ pc' = "loop"
                  /\ EndOfBody
     ELSE /\ pc' = "loop"
          /\ EndOfBody
          /\ UNCHANGED <<reassessments, currentSteps>>
  /\ UNCHANGED <<config, currentStepIndex, iteration, consecutiveFailures, completedSteps,
                 failures, recoveryAttempts, summary>>
  /\ UNCHANGED outstanding
  /\ UNCHANGED outsideLoop

\* lines 316-338: the reassessment is applied, or skipped when it failed
ApplyReassessment ==
  /\ pc = "reassessment"
  /\ IF reassessment.success
     THEN /\ reassessments' = reassessments + 1
          /\ IF SubstringThrows(reassessment.reasoning)
             THEN /\ pc' = "thrown"
                  /\ EndOfBody
                  /\ UNCHANGED <<currentSteps, consecutiveFailures>>
             ELSE /\ currentSteps' = RevisedPlan(currentSteps, currentStepIndex,
                                                 reassessment.revisedSteps)
                  /\ consecutiveFailures' = 0
                  /\ pc' = "loop"
                  /\ EndOfBody
     ELSE /\ pc' = "loop"
          /\ EndOfBody
          /\ UNCHANGED <<reassessments, currentSteps, consecutiveFailures>>
  /\ UNCHANGED <<config, currentStepIndex, iteration, completedSteps, failures,
                 recoveryAttempts, summary>>
  /\ UNCHANGED outstanding
  /\ UNCHANGED outsideLoop

\* line 343: createRecoverySolution returns its result
CreateRecoverySolutionReturns ==
  /\ pc = "createRecoverySolution"
  /\ \E reply \in RecoveryReplies :
       recovery' = CreateRecoverySolution(reply)
  /\ pc' = "recovery"
  /\ UNCHANGED <<config, currentSteps, currentStepIndex, iteration, consecutiveFailures,
                 context, result, reassessment, summary>>
  /\ outstanding' = CallReturned(outstanding)
  /\ UNCHANGED outsideLoop

\* lines 345-365, 373-384: the recovery is recorded; a recovery command is run
ApplyRecovery ==
  /\ pc = "recovery"
  /\ IF ~recovery.success
     THEN /\ pc' = "loop"
          /\ EndOfBody
          /\ UNCHANGED recoveryAttempts
     ELSE IF SubstringThrows(recovery.recoverySolution)
     THEN /\ pc' = "thrown"
          /\ EndOfBody
          /\ UNCHANGED recoveryAttempts
     ELSE /\ recoveryAttempts' = Push(recoveryAttempts,
               [step |-> currentSteps[currentStepIndex + 1], iteration |-> iteration])
          /\ IF recovery.recoveryAction.choice = "terminalCommand"
             THEN /\ pc' = "recoveryCommand"
                  /\ UNCHANGED locals
             ELSE /\ pc' = "loop"
                  /\ EndOfBody
  /\ UNCHANGED <<config, currentSteps, currentStepIndex, iteration, consecutiveFailures,
                 completedSteps, failures, reassessments, summary>>
  /\ outstanding' = IF pc' = "recoveryCommand" THEN CallIssued(outstanding) ELSE outstanding
  /\ UNCHANGED outsideLoop

\* lines 358-384: the recovery command returned (or raised)
RecoveryCommandReturns ==
  /\ pc = "recoveryCommand"
  /\ \E destructive \in BOOLEAN : \E cmd \in ExecuteAgentCommand(destructive, FALSE) :
       IF cmd = "raise"
       THEN /\ pc' = "thrown"
            /\ EndOfBody
            /\ UNCHANGED consecutiveFailures
       ELSE /\ pc' = "loop"
            /\ consecutiveFailures' = IF cmd = "success" THEN 0 ELSE consecutiveFailures
            /\ EndOfBody
  /\ UNCHANGED <<config, currentSteps, currentStepIndex, iteration, context, summary>>
  /\ outstanding' = CallReturned(outstanding)
  /\ UNCHANGED outsideLoop

(***************************************************************************)
(* verifyRequestFulfillment (advisory, after the loop)                     *)
(***************************************************************************)
VerifyBodies == {"missing", "incomplete", "success", "fine"}

\* /(not fulfilled|incomplete|missing|failed|issue|problem)/i
Negative(body) == body \in {"missing", "incomplete"}
\* /(fully fulfilled|complete|success|all requirements met)/i
Positive(body) == body \in {"incomplete", "success"}

VerifyLine(b) == [numbered |-> FALSE, indent |-> FALSE, body |-> b]

VerifyReplies ==
  {Raise, NullReply} \cup
  {Obj("response", r, Absent) : r \in {Absent, NonString} \cup {Str(<<VerifyLine(b)>>) : b \in VerifyBodies}}

\* JSON.stringify(response)
Stringified == Str(<<VerifyLine("json")>>)

VerifyRequestFulfillment(reply) ==
  IF reply.kind \in {"raise", "null"} THEN [fulfilled |-> "false", error |-> TRUE]
  ELSE LET responseText == OrElse(reply.response, OrElse(reply.code, Stringified)) IN
       IF responseText.t # "string"
       THEN [fulfilled |-> "false", error |-> TRUE]   \* responseText.split is not a function
       ELSE LET neg == \E i \in 1..Len(responseText.lines) : Negative(responseText.lines[i].body)
                pos == \E i \in 1..Len(responseText.lines) : Positive(responseText.lines[i].body)
            IN  [fulfilled |-> IF ~neg \/ pos THEN "true" ELSE "false", error |-> FALSE]

\* lines 405-436 and 446-481: the verification returned and the summary is
\* built, or the awaited call raised.  verifyRequestFulfillment builds its
\* default prompt before its try block (lines 454-481):
\* JSON.stringify(s.result) is undefined for a completed step whose result is
\* undefined, and .substring on it raises.  options.verificationPrompt, when
\* given, replaces the default prompt.
VerifyReturns ==
  /\ pc = "verify"
  /\ \E reply \in VerifyReplies, verificationPrompt \in BOOLEAN :
       IF /\ ~verificationPrompt
          /\ \E i \in 1..Len(completedSteps) : completedSteps[i].result = "undefined"
       THEN /\ pc' = "thrown"
            /\ summary' = summary
       ELSE /\ pc' = "done"
            /\ summary' = Summary(VerifyRequestFulfillment(reply))
  /\ UNCHANGED <<config, currentSteps, currentStepIndex, iteration, consecutiveFailures,
                 context, locals>>
  /\ outstanding' = CallReturned(outstanding)
  /\ UNCHANGED outsideLoop

(***************************************************************************)
(* executePlanWithResilience: the plan argument is any JS value.  A value  *)
(* is null, a number, a string (its characters), an array (its elements)   *)
(* or another object; `steps` is the value of its .steps property.         *)
(***************************************************************************)
Value(t, items) == [t |-> t, items |-> items]
Undefined == Value("undefined", <<>>)

\* the elements of a steps array: a plain string, a step of the
\* multiStepPlannerAgent schema ({stepId, title, description, ...}), a step
\* carrying stepDescription
StringStep(n) == [t |-> "string", v |-> n, stepDescription |-> "", description |-> ""]
PlannerStep(n) == [t |-> "record", v |-> "", stepDescription |-> "", description |-> n]
DescribedStep(n) == [t |-> "record", v |-> "", stepDescription |-> n, description |-> ""]

StepLists ==
  { <<>>, <<StringStep("s1")>>, <<StringStep("s1"), StringStep("s2")>>,
    <<PlannerStep("s1")>>, <<DescribedStep("s1"), DescribedStep("s2")>>,
    <<DescribedStep("s1"), StringStep("s2")>> }

PlanResponse(top, stepsProperty) == [top |-> top, steps |-> stepsProperty]

NoPlanResponse == PlanResponse(Undefined, Undefined)

PlanInputs ==
  {PlanResponse(Value("array", l), Undefined) : l \in StepLists} \cup
  {PlanResponse(Value("object", <<>>), Value("array", l)) : l \in StepLists} \cup
  {PlanResponse(Value("object", <<>>), v) :
     v \in {Undefined, Value("string", <<>>), Value("string", <<StringStep("a"), StringStep("b")>>),
            Value("number", <<>>), Value("object", <<>>)}} \cup
  {PlanResponse(Value(t, <<>>), Undefined) : t \in {"null", "number", "string"}}

\* JS truthiness of a value (a number stands for a non-zero one)
TruthyValue(v) ==
  /\ v.t \notin {"undefined", "null"}
  /\ ~(v.t = "string" /\ v.items = <<>>)

\* a step of the loop is a TLA+ string: a string element is itself, any other
\* element is written as the text the loop's prompts render it to
ObjectStep == "[object Object]"
UndefinedStep == "undefined"
IsStringStep(step) == step \notin {ObjectStep, UndefinedStep}

ToStep(item) == IF item.t = "string" THEN item.v ELSE ObjectStep

\* s => s.stepDescription
StepDescription(item) ==
  IF item.t = "record" /\ item.stepDescription # "" THEN item.stepDescription ELSE UndefinedStep

NoSteps == [thrown |-> TRUE, steps |-> <<>>]
Steps(list) == [thrown |-> FALSE, steps |-> list]

\* [...steps] at line 239: an array or a string is spread, anything else raises
SpreadSteps(v) ==
  IF v.t \in {"array", "string"}
  THEN Steps([i \in 1..Len(v.items) |-> ToStep(v.items[i])])
  ELSE NoSteps

\* lines 532-549, then lines 214-242 of executeStepsWithResilience
NormalizePlan(plan) ==
  IF plan.top.t = "array" THEN SpreadSteps(plan.top)
  ELSE IF plan.top.t = "null" THEN NoSteps            \* planResponse.steps raises
  ELSE IF ~TruthyValue(plan.steps) THEN NoSteps       \* Invalid plan response format
  ELSE IF /\ plan.steps.t = "array"
          /\ Len(plan.steps.items) > 0
          /\ plan.steps.items[1].t = "record"
          /\ plan.steps.items[1].stepDescription # ""
       THEN Steps([i \in 1..Len(plan.steps.items) |-> StepDescription(plan.steps.items[i])])
  ELSE SpreadSteps(plan.steps)

\* executePlanWithResilience is called: it raises, or the loop starts
ExecutePlanWithResilience ==
  /\ pc = "plan"
  /\ LET normalized == NormalizePlan(planResponse) IN
       IF normalized.thrown
       THEN /\ pc' = "aborted"
            /\ UNCHANGED <<steps, currentSteps>>
       ELSE /\ steps' = normalized.steps
            /\ currentSteps' = normalized.steps
            /\ pc' = "loop"
  /\ UNCHANGED <<maxIterations, maxConsecutiveFailures, verify, currentStepIndex, iteration,
                 consecutiveFailures, context, locals, summary, outstanding>>
  /\ UNCHANGED outsideLoop

(***************************************************************************)
(* The caller: it may raise its cancellation signal while the run is       *)
(* suspended, and it may have started a second invocation.                 *)
(***************************************************************************)
\* the caller raises the signal; the options read at lines 215-221 hold no
\* signal and the loop test at line 244 reads none
RaiseCancellation ==
  /\ pc \notin {"idle", "done", "thrown"}
  /\ ~cancelRequested
  /\ cancelRequested' = TRUE
  /\ UNCHANGED <<planResponse, otherRun, optionsDryRun, loopVars, reqVars, botVars>>

\* the options both invocations of the two-run scenario are given: enough
\* for a recovery, a reassessment and a completed step in each
TwoRunsMaxIterations == 2
TwoRunsMaxConsecutiveFailures == 2

\* a second invocation, executeStepsWithResilience(['o1'], options): its
\* locals of lines 231-242
OtherRunStart ==
  [running |-> TRUE, maxIterations |-> TwoRunsMaxIterations,
   maxConsecutiveFailures |-> TwoRunsMaxConsecutiveFailures,
   currentSteps |-> <<"o1">>, currentStepIndex |-> 0, iteration |-> 0,
   consecutiveFailures |-> 0, completedSteps |-> <<>>, failures |-> <<>>,
   recoveryAttempts |-> <<>>, reassessments |-> 0]

NoOtherRun == [OtherRunStart EXCEPT !.running = FALSE, !.currentSteps = <<>>]

\* one list at module level, written by every invocation
ModuleLevel(own, other) == other

\* lines 231-242: `context` and the locals are built inside the invocation,
\* so what another invocation wrote is not what this one holds
InvocationLocal(own, other) == own

\* lines 257-283
OtherSuccess(o) ==
  [o EXCEPT !.iteration = @ + 1,
            !.completedSteps = Push(@, [step |-> o.currentSteps[o.currentStepIndex + 1],
                                        iteration |-> o.iteration + 1, status |-> "success"]),
            !.consecutiveFailures = 0,
            !.currentStepIndex = AdvanceIndex(@)]

\* lines 285-295
OtherFailure(o, res) ==
  [o EXCEPT !.iteration = @ + 1,
            !.failures = Push(@, [step |-> o.currentSteps[o.currentStepIndex + 1],
                                  iteration |-> o.iteration + 1, error |-> ErrorText(res)]),
            !.consecutiveFailures = @ + 1]

\* lines 316-338
OtherReassessed(o, r) ==
  IF ~r.success THEN o
  ELSE IF SubstringThrows(r.reasoning)
       THEN [o EXCEPT !.reassessments = @ + 1, !.running = FALSE]
  ELSE [o EXCEPT !.reassessments = @ + 1,
                 !.currentSteps = RevisedPlan(@, o.currentStepIndex, r.revisedSteps),
                 !.consecutiveFailures = 0]

\* lines 345-384
OtherRecovered(o, rec, cmd) ==
  IF ~rec.success THEN o
  ELSE IF SubstringThrows(rec.recoverySolution) THEN [o EXCEPT !.running = FALSE]
  ELSE LET recorded ==
             [o EXCEPT !.recoveryAttempts =
                Push(@, [step |-> o.currentSteps[o.currentStepIndex + 1],
                         iteration |-> o.iteration])]
       IN  IF rec.recoveryAction.choice # "terminalCommand" THEN recorded
           ELSE IF cmd = "raise" THEN [recorded EXCEPT !.running = FALSE]
           ELSE IF cmd = "success" THEN [recorded EXCEPT !.consecutiveFailures = 0]
           ELSE recorded

\* everything executeStep may return
StepResults ==
  {ExecuteStep(reply, cmd) :
     reply \in StepReplies, cmd \in ExecuteAgentCommand(TRUE, FALSE) \cup ExecuteAgentCommand(FALSE, FALSE)}

\* lines 244-386: one iteration of the second invocation
OtherRunIteration ==
  /\ otherRun.running
  /\ LoopCondition(otherRun.currentStepIndex, Len(otherRun.currentSteps),
                   otherRun.iteration, otherRun.maxIterations)
  /\ \E res \in StepResults :
       IF StepSucceeded(res)
       THEN otherRun' = OtherSuccess(otherRun)
       ELSE LET failed == OtherFailure(otherRun, res) IN
              IF ThresholdReached(failed.consecutiveFailures, failed.maxConsecutiveFailures)
              THEN \E r \in ReassessReplies :
                     otherRun' = OtherReassessed(failed,
                       ReassessPlan(SliceFrom(failed.currentSteps, failed.currentStepIndex), r))
              ELSE \E r \in RecoveryReplies, destructive \in BOOLEAN :
                     \E cmd \in ExecuteAgentCommand(destructive, FALSE) :
                       otherRun' = OtherRecovered(failed, CreateRecoverySolution(r), cmd)
  /\ completedSteps' = InvocationLocal(completedSteps, otherRun'.completedSteps)
  /\ failures' = InvocationLocal(failures, otherRun'.failures)
  /\ recoveryAttempts' = InvocationLocal(recoveryAttempts, otherRun'.recoveryAttempts)
  /\ reassessments' = InvocationLocal(reassessments, otherRun'.reassessments)
  /\ consecutiveFailures' = InvocationLocal(consecutiveFailures, otherRun'.consecutiveFailures)
  /\ currentStepIndex' = InvocationLocal(currentStepIndex, otherRun'.currentStepIndex)
  /\ currentSteps' = InvocationLocal(currentSteps, otherRun'.currentSteps)
  /\ UNCHANGED <<config, iteration, locals, summary, outstanding, pc>>
  /\ UNCHANGED <<planResponse, cancelRequested, optionsDryRun, reqVars, botVars>>

\* lines 388-436: the second invocation leaves its loop and returns
OtherRunReturns ==
  /\ otherRun.running
  /\ ~LoopCondition(otherRun.currentStepIndex, Len(otherRun.currentSteps),
                    otherRun.iteration, otherRun.maxIterations)
  /\ otherRun' = [otherRun EXCEPT !.running = FALSE]
  /\ UNCHANGED <<planResponse, cancelRequested, optionsDryRun, loopVars, reqVars, botVars>>

LoopNext ==
  \/ EnterIteration
  \/ ExitLoop
  \/ ExecuteStepReturns
  \/ StepSuccess
  \/ StepFailure
  \/ ReassessPlanReturns
  \/ ApplyReassessment
  \/ CreateRecoverySolutionReturns
  \/ ApplyRecovery
  \/ RecoveryCommandReturns
  \/ VerifyReturns

Terminated == pc \in {"done", "thrown"}

(***************************************************************************)
(* SecretRedactor (lib/secretRedactor.js).  A text is a sequence of        *)
(* tokens: plain words, secret values, and placeholders {{TYPE_N}}.        *)
(***************************************************************************)
Word(w) == [k |-> "word", v |-> w]
Secret(x) == [k |-> "secret", v |-> x]
Placeholder(n) == [k |-> "placeholder", v |-> n]

SecretValues == {"S1", "S2"}

HasSecret(text) == \E i \in 1..Len(text) : text[i].k = "secret"

\* position of x in the sequence s (0 when absent)
IndexOf(s, x) == IF \E i \in 1..Len(s) : s[i] = x
                 THEN CHOOSE i \in 1..Len(s) : s[i] = x /\ \A j \in 1..(i - 1) : s[j] # x
                 ELSE 0

\* redact: every secret value becomes a placeholder; a repeated value reuses
\* its placeholder.  `seen` lists the secret values in order of first match,
\* so placeholder N restores seen[N].
RECURSIVE RedactFrom(_, _)
RedactFrom(text, seen) ==
  IF text = <<>> THEN [safeText |-> <<>>, mapping |-> seen]
  ELSE LET tok == Head(text) IN
       IF tok.k = "secret"
       THEN LET seen2 == IF IndexOf(seen, tok.v) = 0 THEN Append(seen, tok.v) ELSE seen
                rest == RedactFrom(Tail(text), seen2)
            IN  [safeText |-> <<Placeholder(IndexOf(seen2, tok.v))>> \o rest.safeText,
                 mapping |-> rest.mapping]
       ELSE LET rest == RedactFrom(Tail(text), seen)
            IN  [safeText |-> <<tok>> \o rest.safeText, mapping |-> rest.mapping]

Redact(text, mapping) == RedactFrom(text, mapping)

\* substitute that restores every known placeholder to the first secret
SubstituteAllFirst(text, mapping) ==
  [i \in 1..Len(text) |->
     IF text[i].k = "placeholder" /\ text[i].v \in 1..Len(mapping)
     THEN Secret(mapping[1])
     ELSE text[i]]

\* substitute: known placeholders are restored, unknown ones are left intact
Substitute(text, mapping) ==
  [i \in 1..Len(text) |->
     IF text[i].k = "placeholder" /\ text[i].v \in 1..Len(mapping)
     THEN Secret(mapping[text[i].v])
     ELSE text[i]]

vars == <<loopVars, reqVars, callerVars, botVars>>

QueryTokens == {Word("w")} \cup {Secret(x) : x \in SecretValues}
Queries == SeqsUpTo(QueryTokens, MaxQueryLen)

NoGuidance == [t |-> "absent", text |-> <<>>]
Guidance(text) == [t |-> "text", text |-> text]

PersonalityRaise == [kind |-> "raise", shouldProceed |-> FALSE, internalGuidance |-> NoGuidance]
PersonalityNull == [kind |-> "null", shouldProceed |-> FALSE, internalGuidance |-> NoGuidance]

\* the personality layer has seen the query and may repeat it in its guidance
PersonalityReplies(query) ==
  {PersonalityRaise, PersonalityNull} \cup
  {[kind |-> "obj", shouldProceed |-> p, internalGuidance |-> g] :
     p \in BOOLEAN, g \in {NoGuidance, Guidance(query), Guidance(<<Word("guide")>>)}}

\* the router's `choice` is any string: a key of schemaMap, the name of a
\* member every object inherits, or another name
RouterChoices == {"baseAgent", "summarizeAgent", "unknownAgent", "constructor"}
RouterReplies == {[kind |-> k, choice |-> "none"] : k \in {"raise", "null"}}
                 \cup {[kind |-> "obj", choice |-> c] : c \in RouterChoices}

\* rm -rf / matches a destructive pattern
Destructive(command) == \E i \in 1..Len(command) : command[i] = Word("rm -rf /")

CommandTokens == {Word("ls"), Word("rm -rf /"), Placeholder(1), Placeholder(2)}
Commands == SeqsUpTo(CommandTokens, 2) \ {<<>>}

AgentReplies ==
  {[kind |-> k, choice |-> "none", terminalCommand |-> <<>>] : k \in {"raise", "null"}}
  \cup {[kind |-> "obj", choice |-> "terminalCommand", terminalCommand |-> c] : c \in Commands}
  \cup {[kind |-> "obj", choice |-> "response", terminalCommand |-> <<>>]}

\* the keys of schemaMap (lines 15-40)
SchemaMap == {"baseAgent", "summarizeAgent", "validatorAgent", "multiStepPlannerAgent",
              "followThroughAgent", "sshExplorerAgent"}

\* schemaMap[routingDecision.choice]?.schema || baseAgentExtendedResponseSchema
SelectedSchema(choice) == IF choice \in SchemaMap THEN choice ELSE "baseAgent"

\* schemaMap[name] of the object literal of lines 15-40: the entry of a key,
\* a member inherited from Object.prototype (truthy, with no .schema), or
\* undefined
SchemaMapEntry(name) ==
  IF name \in SchemaMap THEN [truthy |-> TRUE, schema |-> name]
  ELSE IF name = "constructor" THEN [truthy |-> TRUE, schema |-> "undefined"]
  ELSE [truthy |-> FALSE, schema |-> "undefined"]

NoResponse == [returned |-> FALSE]
NoAiResponse == [kind |-> "none", choice |-> "none", terminalCommand |-> <<>>]
NoRoutingDecision == [kind |-> "none", choice |-> "none"]

ReqInit ==
  /\ userQuery \in Queries
  /\ skipPersonality \in BOOLEAN
  /\ skipRedaction \in BOOLEAN
  /\ skipMemory \in BOOLEAN
  /\ autoApprove \in BOOLEAN
  /\ dryRun \in BOOLEAN
  /\ allowDangerous \in BOOLEAN
  /\ lumenPersonality = PersonalityNull
  /\ enhancedQuery = userQuery
  /\ safeQuery = <<>>
  /\ redactorMap = <<>>
  /\ oracleCalls = <<>>
  /\ routingDecision = NoRoutingDecision
  /\ aiResponse = NoAiResponse
  /\ executions = <<>>
  /\ memoryLog = <<>>
  /\ response = NoResponse
  /\ orchestrated = NoResponse
  /\ rpc = "start"

OracleCall(layer, text) == [layer |-> layer, text |-> text]

\* lines 207-241: redact, load the memory context, call the router
RedactAndRoute(query) ==
  LET red == Redact(query, redactorMap) IN
    /\ enhancedQuery' = query
    /\ safeQuery' = IF skipRedaction THEN query ELSE red.safeText
    /\ redactorMap' = IF skipRedaction THEN redactorMap ELSE red.mapping
    /\ oracleCalls' = Append(oracleCalls, OracleCall("router", safeQuery'))
    /\ rpc' = "router"

\* lines 146-171, or 207-241 when the personality layer is skipped
Start ==
  /\ rpc = "start"
  /\ IF ~skipPersonality
     THEN /\ oracleCalls' = Append(oracleCalls, OracleCall("lumenPersonality", userQuery))
          /\ rpc' = "lumenPersonality"
          /\ UNCHANGED <<enhancedQuery, safeQuery, redactorMap>>
     ELSE RedactAndRoute(userQuery)
  /\ UNCHANGED <<reqConfig, lumenPersonality, routingDecision, aiResponse, executions,
                 memoryLog, response>>
  /\ UNCHANGED orchestrated
  /\ UNCHANGED outsideRequest

\* PersonalityReturns going on to the router whatever shouldProceed is
PersonalityReturnsAlwaysProceeds ==
  /\ rpc = "lumenPersonality"
  /\ \E reply \in PersonalityReplies(userQuery) :
       IF reply.kind \in {"raise", "null"}
       THEN /\ rpc' = "thrown"
            /\ UNCHANGED <<lumenPersonality, enhancedQuery, safeQuery, redactorMap, oracleCalls>>
       ELSE /\ lumenPersonality' = [reply EXCEPT !.internalGuidance = NoGuidance]
            /\ RedactAndRoute(IF reply.internalGuidance.t = "text" /\ Len(reply.internalGuidance.text) > 0
                              THEN reply.internalGuidance.text ELSE userQuery)
  /\ UNCHANGED <<reqConfig, routingDecision, aiResponse, executions, memoryLog, response>>
  /\ UNCHANGED orchestrated
  /\ UNCHANGED outsideRequest

\* lines 173-241: the personality layer returned; of its reply the model
\* keeps shouldProceed
PersonalityReturns ==
  /\ rpc = "lumenPersonality"
  /\ \E reply \in PersonalityReplies(userQuery) :
       IF reply.kind \in {"raise", "null"}
       THEN /\ rpc' = "thrown"
            /\ UNCHANGED <<lumenPersonality, enhancedQuery, safeQuery, redactorMap, oracleCalls,
                           response>>
       ELSE IF ~reply.shouldProceed
       THEN /\ rpc' = "returned"
            /\ lumenPersonality' = [reply EXCEPT !.internalGuidance = NoGuidance]
            /\ response' = [returned |-> TRUE, choice |-> "lumenPersonality",
                            commandExecuted |-> FALSE, executionStatus |-> "null",
                            interactionSaved |-> FALSE, redactorUsed |-> FALSE,
                            selectedSchema |-> "null"]
            /\ enhancedQuery' = IF reply.internalGuidance.t = "text" /\ Len(reply.internalGuidance.text) > 0
                                THEN reply.internalGuidance.text ELSE userQuery
            /\ UNCHANGED <<safeQuery, redactorMap, oracleCalls>>
       ELSE /\ lumenPersonality' = [reply EXCEPT !.internalGuidance = NoGuidance]
            /\ RedactAndRoute(IF reply.internalGuidance.t = "text" /\ Len(reply.internalGuidance.text) > 0
                              THEN reply.internalGuidance.text ELSE userQuery)
            /\ UNCHANGED response
  /\ UNCHANGED <<reqConfig, routingDecision, aiResponse, executions, memoryLog>>
  /\ UNCHANGED orchestrated
  /\ UNCHANGED outsideRequest

\* lines 243-256: the router returned; the selected agent is called
RouterReturns ==
  /\ rpc = "router"
  /\ \E reply \in RouterReplies :
       IF reply.kind \in {"raise", "null"}
       THEN /\ rpc' = "thrown"
            /\ UNCHANGED <<oracleCalls, routingDecision>>
       ELSE /\ oracleCalls' = Append(oracleCalls, OracleCall(SelectedSchema(reply.choice), safeQuery))
            /\ routingDecision' = reply
            /\ rpc' = "agent"
  /\ UNCHANGED <<reqConfig, lumenPersonality, enhancedQuery, safeQuery, redactorMap, aiResponse, executions,
                 memoryLog, response>>
  /\ UNCHANGED orchestrated
  /\ UNCHANGED outsideRequest

\* lines 298-355: the memory update and the returned object
Finish(ai, status, saved) ==
  /\ memoryLog' = IF ~skipMemory /\ saved
                  THEN Append(memoryLog, [query |-> userQuery, redacted |-> safeQuery # userQuery])
                  ELSE memoryLog
  /\ response' = [returned |-> TRUE, choice |-> ai.choice,
                  commandExecuted |-> ai.choice = "terminalCommand",
                  executionStatus |-> status,
                  interactionSaved |-> ~skipMemory, redactorUsed |-> ~skipRedaction,
                  selectedSchema |-> routingDecision.choice]
  /\ rpc' = "returned"

\* lines 258-285: the agent returned; a terminal command is handed to the runner
AgentReturns ==
  /\ rpc = "agent"
  /\ \E reply \in AgentReplies, saved \in BOOLEAN :
       IF reply.kind \in {"raise", "null"}
       THEN /\ rpc' = "thrown"
            /\ UNCHANGED <<aiResponse, executions, memoryLog, response>>
       ELSE /\ aiResponse' = reply
            /\ IF reply.choice = "terminalCommand"
               THEN /\ executions' = Append(executions,
                          [command |-> IF skipRedaction THEN reply.terminalCommand
                                       ELSE Substitute(reply.terminalCommand, redactorMap),
                           substituted |-> ~skipRedaction,
                           dryRun |-> dryRun, autoApprove |-> autoApprove,
                           allowDangerous |-> allowDangerous, status |-> "pending"])
                    /\ rpc' = "executeAgentCommand"
                    /\ UNCHANGED <<memoryLog, response>>
               ELSE /\ Finish(reply, "null", saved)
                    /\ UNCHANGED executions
  /\ UNCHANGED <<reqConfig, lumenPersonality, enhancedQuery, safeQuery, redactorMap, oracleCalls,
                 routingDecision>>
  /\ UNCHANGED orchestrated
  /\ UNCHANGED outsideRequest

\* lines 286-355: the command runner returned or raised
CommandReturns ==
  /\ rpc = "executeAgentCommand"
  /\ \E cmd \in ExecuteAgentCommand(Destructive(executions[Len(executions)].command), dryRun),
        saved \in BOOLEAN :
       LET status == IF cmd = "raise" THEN "error" ELSE cmd IN
         /\ executions' = [executions EXCEPT ![Len(executions)].status = status]
         /\ Finish(aiResponse, status, saved)
  /\ UNCHANGED <<reqConfig, lumenPersonality, enhancedQuery, safeQuery, redactorMap, oracleCalls, routingDecision,
                 aiResponse>>
  /\ UNCHANGED orchestrated
  /\ UNCHANGED outsideRequest

(***************************************************************************)
(* orchestrateQuery: routing without personality, memory or redaction      *)
(***************************************************************************)
\* lines 49-64: the router is asked about the query as given
OrchestrateQuery ==
  /\ rpc = "start"
  /\ oracleCalls' = Append(oracleCalls, OracleCall("orchestrateQuery router", userQuery))
  /\ rpc' = "orchestrateRouter"
  /\ UNCHANGED <<reqConfig, lumenPersonality, enhancedQuery, safeQuery, redactorMap,
                 routingDecision, aiResponse, executions, memoryLog, response, orchestrated>>
  /\ UNCHANGED outsideRequest

\* lines 66-75 and 86-92: the router returned; the agent is called with the
\* schema of the entry found, or with baseAgent's when none was found
OrchestrateRouterReturns ==
  /\ rpc = "orchestrateRouter"
  /\ \E reply \in RouterReplies :
       IF reply.kind \in {"raise", "null"}
       THEN /\ rpc' = "thrown"
            /\ UNCHANGED <<oracleCalls, routingDecision>>
       ELSE LET selectedSchemaConfig == SchemaMapEntry(reply.choice) IN
            /\ routingDecision' = reply
            /\ oracleCalls' = Append(oracleCalls,
                  OracleCall(IF ~selectedSchemaConfig.truthy THEN "baseAgent"
                             ELSE selectedSchemaConfig.schema, userQuery))
            /\ rpc' = "orchestrateAgent"
  /\ UNCHANGED <<reqConfig, lumenPersonality, enhancedQuery, safeQuery, redactorMap,
                 aiResponse, executions, memoryLog, response, orchestrated>>
  /\ UNCHANGED outsideRequest

\* lines 76-83 and 94-101: the agent returned; its reply is returned with
\* _routingMetadata attached (of the reply the model keeps the choice)
OrchestrateAgentReturns ==
  /\ rpc = "orchestrateAgent"
  /\ \E reply \in AgentReplies :
       IF reply.kind = "raise"
       THEN /\ rpc' = "thrown"
            /\ UNCHANGED orchestrated
       ELSE /\ orchestrated' =
                 IF ~SchemaMapEntry(routingDecision.choice).truthy
                 THEN [returned |-> TRUE, choice |-> reply.choice, fallbackUsed |-> "true",
                       attemptedChoice |-> routingDecision.choice,
                       selectedSchema |-> "undefined"]
                 ELSE [returned |-> TRUE, choice |-> reply.choice, fallbackUsed |-> "undefined",
                       attemptedChoice |-> "undefined",
                       selectedSchema |-> routingDecision.choice]
            /\ rpc' = "returned"
  /\ UNCHANGED <<reqConfig, lumenPersonality, enhancedQuery, safeQuery, redactorMap,
                 oracleCalls, routingDecision, aiResponse, executions, memoryLog, response>>
  /\ UNCHANGED outsideRequest

RequestNext ==
  \/ OrchestrateQuery
  \/ OrchestrateRouterReturns
  \/ OrchestrateAgentReturns
  \/ Start
  \/ PersonalityReturns
  \/ RouterReturns
  \/ AgentReturns
  \/ CommandReturns

(***************************************************************************)
(* The approval-enabled Telegram bot.  Every update starts a handler; a    *)
(* handler runs until its first long await (processUserRequest or          *)
(* executeAgentCommand) and is resumed when that call returns, so handlers *)
(* of different updates interleave.  The Telegram API calls themselves     *)
(* (sendMessage, answerCallbackQuery, ...) are taken to return.            *)
(***************************************************************************)
Chats == {"chatA", "chatB"}
BotCommands == {"cmd1", "cmd2"}

\* 5 * 60 * 1000 ms, the unit of the clock
FiveMinutes == 1

NoPending == [present |-> FALSE, command |-> "none", timestamp |-> 0]
Pending(command, t) == [present |-> TRUE, command |-> command, timestamp |-> t]

\* ['yes', 'y', 'approve', 'execute', 'run', 'ok'], ['no', 'n', 'cancel',
\* 'deny', 'stop'], any other text
BotTexts == {"yes", "no", "query"}

\* array without its i-th element
RemoveAt(seq, i) == SubSeq(seq, 1, i - 1) \o SubSeq(seq, i + 1, Len(seq))

\* lines 1357-1369 and 1214-1226: the approved command is executed for real
ApprovalStarts(chat, via, messageId) ==
  /\ handlers' = Append(handlers, [kind |-> "approval", chat |-> chat,
                                   command |-> pendingCommands[chat].command])
  /\ botExecutions' = Append(botExecutions,
       [chat |-> chat, command |-> pendingCommands[chat].command, via |-> via,
        message |-> messageId, autoApprove |-> TRUE, dryRun |-> FALSE, allowDangerous |-> FALSE,
        requested |-> pendingCommands[chat].timestamp, started |-> now])
  /\ UNCHANGED pendingCommands

\* bot.on('message') taking an affirmative text for an approval whether or
\* not a command is pending
MessageReceivedApprovesAnyYes ==
  /\ updates < MaxUpdates
  /\ updates' = updates + 1
  /\ \E chat \in Chats, text \in BotTexts :
       IF text = "yes"
       THEN ApprovalStarts(chat, "text", 0)
       ELSE IF pendingCommands[chat].present /\ text = "no"
       THEN /\ pendingCommands' = [pendingCommands EXCEPT ![chat] = NoPending]
            /\ UNCHANGED <<handlers, botExecutions>>
       ELSE /\ handlers' = Append(handlers, [kind |-> "query", chat |-> chat, command |-> "none"])
            /\ UNCHANGED <<pendingCommands, botExecutions>>
  /\ UNCHANGED <<now, messages>>
  /\ UNCHANGED outsideBot

\* lines 1187-1305: bot.on('message')
MessageReceived ==
  /\ updates < MaxUpdates
  /\ updates' = updates + 1
  /\ \E chat \in Chats, text \in BotTexts :
       IF pendingCommands[chat].present /\ text = "yes"
       THEN ApprovalStarts(chat, "text", 0)
       ELSE IF pendingCommands[chat].present /\ text = "no"
       THEN /\ pendingCommands' = [pendingCommands EXCEPT ![chat] = NoPending]
            /\ UNCHANGED <<handlers, botExecutions>>
       ELSE /\ handlers' = Append(handlers, [kind |-> "query", chat |-> chat, command |-> "none"])
            /\ UNCHANGED <<pendingCommands, botExecutions>>
  /\ UNCHANGED <<now, messages>>
  /\ UNCHANGED outsideBot

\* lines 1276-1304 and 929-1016: processUserRequest returned (or raised) and
\* handleAgentResponse ran; a terminal command was run dry, is stored for
\* approval and is displayed in a message with an Execute and a Cancel button
QueryReturns ==
  /\ \E i \in 1..Len(handlers) :
       /\ handlers[i].kind = "query"
       /\ handlers' = RemoveAt(handlers, i)
       /\ \E outcome \in {"raise", "message"} \cup BotCommands :
            IF outcome \in BotCommands
            THEN /\ botExecutions' = Append(botExecutions,
                      [chat |-> handlers[i].chat, command |-> outcome, via |-> "query",
                       message |-> 0,
                       autoApprove |-> FALSE, dryRun |-> TRUE, allowDangerous |-> FALSE,
                       requested |-> now, started |-> now])
                 /\ pendingCommands' =
                      [pendingCommands EXCEPT ![handlers[i].chat] = Pending(outcome, now)]
                 /\ messages' = Append(messages,
                      [chat |-> handlers[i].chat, command |-> outcome, buttons |-> TRUE])
            ELSE UNCHANGED <<botExecutions, pendingCommands, messages>>
  /\ UNCHANGED <<now, updates>>
  /\ UNCHANGED outsideBot

\* lines 1310-1423: bot.on('callback_query'): a button of a command message
\* that still shows its buttons was pressed; the handler looks the pending
\* command up by the chat of that message, and removes the buttons of the
\* message unless nothing is pending
CallbackReceived ==
  /\ updates < MaxUpdates
  /\ updates' = updates + 1
  /\ \E messageId \in 1..Len(messages), action \in {"approve_command", "deny_command"} :
       LET chat == messages[messageId].chat IN
       /\ messages[messageId].buttons
       /\ IF ~pendingCommands[chat].present
          THEN UNCHANGED <<pendingCommands, handlers, botExecutions, messages>>
          ELSE /\ messages' = [messages EXCEPT ![messageId].buttons = FALSE]
               /\ IF now - pendingCommands[chat].timestamp > FiveMinutes
                  THEN /\ pendingCommands' = [pendingCommands EXCEPT ![chat] = NoPending]
                       /\ UNCHANGED <<handlers, botExecutions>>
                  ELSE IF action = "approve_command"
                  THEN ApprovalStarts(chat, "button", messageId)
                  ELSE /\ pendingCommands' = [pendingCommands EXCEPT ![chat] = NoPending]
                       /\ UNCHANGED <<handlers, botExecutions>>
  /\ UNCHANGED now
  /\ UNCHANGED outsideBot

\* lines 1228-1259 and 1371-1405: executeAgentCommand returned or raised;
\* finally { pendingCommands.delete(chatId) }
ApprovalReturns ==
  /\ \E i \in 1..Len(handlers) :
       /\ handlers[i].kind = "approval"
       /\ handlers' = RemoveAt(handlers, i)
       /\ pendingCommands' = [pendingCommands EXCEPT ![handlers[i].chat] = NoPending]
  /\ UNCHANGED <<now, botExecutions, messages, updates>>
  /\ UNCHANGED outsideBot

\* time passes
Tick ==
  /\ now < MaxClock
  /\ now' = now + 1
  /\ UNCHANGED <<pendingCommands, handlers, botExecutions, messages, updates>>
  /\ UNCHANGED outsideBot

BotNext ==
  \/ MessageReceived
  \/ QueryReturns
  \/ CallbackReceived
  \/ ApprovalReturns
  \/ Tick

(***************************************************************************)
(* Specifications                                                          *)
(***************************************************************************)
\* no request is in progress
ReqIdle ==
  /\ userQuery = <<>>
  /\ skipPersonality = FALSE /\ skipRedaction = FALSE /\ skipMemory = FALSE
  /\ autoApprove = FALSE /\ dryRun = FALSE /\ allowDangerous = FALSE
  /\ lumenPersonality = PersonalityNull
  /\ enhancedQuery = <<>> /\ safeQuery = <<>> /\ redactorMap = <<>>
  /\ oracleCalls = <<>> /\ routingDecision = NoRoutingDecision
  /\ aiResponse = NoAiResponse /\ executions = <<>>
  /\ memoryLog = <<>> /\ response = NoResponse /\ orchestrated = NoResponse
  /\ rpc = "idle"

\* no loop is running
LoopIdle ==
  /\ steps = <<>> /\ maxIterations = 1 /\ maxConsecutiveFailures = 1 /\ verify = FALSE
  /\ currentSteps = <<>> /\ currentStepIndex = 0 /\ iteration = 0
  /\ consecutiveFailures = 0 /\ completedSteps = <<>> /\ failures = <<>>
  /\ recoveryAttempts = <<>> /\ reassessments = 0
  /\ result = None /\ recovery = None /\ reassessment = None
  /\ summary = NoSummary /\ outstanding = 0 /\ pc = "idle"

\* executeStepsWithResilience is called directly, nobody cancels, no second
\* run, no dryRun option
CallerIdle ==
  /\ planResponse = NoPlanResponse
  /\ cancelRequested = FALSE
  /\ otherRun = NoOtherRun
  /\ optionsDryRun = FALSE

\* no bot is running
BotIdle ==
  /\ pendingCommands = [c \in Chats |-> NoPending] /\ now = 0 /\ handlers = <<>>
  /\ botExecutions = <<>> /\ messages = <<>> /\ updates = 0

Init == LoopInit /\ ReqIdle /\ CallerIdle /\ BotIdle

Next == LoopNext

Spec == Init /\ [][Next]_vars

\* every awaited call returns, so a suspended run is always resumed
FairSpec == Spec /\ WF_vars(Next)

\* executePlanWithResilience is called with any value as its plan
PlanInit ==
  /\ planResponse \in PlanInputs
  /\ cancelRequested = FALSE /\ otherRun = NoOtherRun /\ optionsDryRun = FALSE
  /\ steps = <<>> /\ currentSteps = <<>>
  /\ maxIterations = MaxIterBound
  /\ maxConsecutiveFailures = MaxFailBound
  /\ verify \in BOOLEAN
  /\ currentStepIndex = 0 /\ iteration = 0 /\ consecutiveFailures = 0
  /\ completedSteps = <<>> /\ failures = <<>> /\ recoveryAttempts = <<>>
  /\ reassessments = 0
  /\ result = None /\ recovery = None /\ reassessment = None
  /\ summary = NoSummary /\ outstanding = 0
  /\ pc = "plan"
  /\ ReqIdle /\ BotIdle

PlanSpec == PlanInit /\ [][ExecutePlanWithResilience \/ LoopNext]_vars

\* the run of Spec, with a caller that may cancel it
CancelSpec == Init /\ [][Next \/ RaiseCancellation]_vars

\* the run of Spec with { dryRun: true } among its options; the options read
\* at lines 215-221 hold no dryRun, and the runner is called with
\* dryRun: false (line 69) and with no dryRun at all (line 364)
DryRunInit ==
  /\ LoopInit /\ ReqIdle /\ BotIdle
  /\ planResponse = NoPlanResponse /\ cancelRequested = FALSE /\ otherRun = NoOtherRun
  /\ optionsDryRun = TRUE

DryRunSpec == DryRunInit /\ [][Next]_vars

\* a run of a one-step plan with room for more failures than a reassessment
\* prompt lists
LongRunInit ==
  /\ steps = Plan(1) /\ currentSteps = steps
  /\ maxIterations = LongRunIterations
  /\ maxConsecutiveFailures = MaxFailBound
  /\ verify = TRUE
  /\ currentStepIndex = 0 /\ iteration = 0 /\ consecutiveFailures = 0
  /\ completedSteps = <<>> /\ failures = <<>> /\ recoveryAttempts = <<>>
  /\ reassessments = 0
  /\ result = None /\ recovery = None /\ reassessment = None
  /\ summary = NoSummary /\ outstanding = 0
  /\ pc = "loop"
  /\ ReqIdle /\ CallerIdle /\ BotIdle

LongRunSpec == LongRunInit /\ [][Next]_vars

\* two invocations in one process, interleaved at their awaits
TwoRunsInit ==
  /\ LoopInit
  /\ steps = Plan(1)
  /\ maxIterations = TwoRunsMaxIterations
  /\ maxConsecutiveFailures = TwoRunsMaxConsecutiveFailures
  /\ otherRun = OtherRunStart
  /\ planResponse = NoPlanResponse /\ cancelRequested = FALSE /\ optionsDryRun = FALSE
  /\ ReqIdle /\ BotIdle

TwoRunsSpec == TwoRunsInit /\ [][LoopNext \/ OtherRunIteration \/ OtherRunReturns]_vars

\* the bot has started: nothing is pending
BotInit ==
  /\ pendingCommands = [c \in Chats |-> NoPending]
  /\ now = 0 /\ handlers = <<>> /\ botExecutions = <<>> /\ messages = <<>> /\ updates = 0
  /\ LoopIdle /\ ReqIdle /\ CallerIdle

TelegramSpec == BotInit /\ [][BotNext]_vars

RequestInit == ReqInit /\ LoopIdle /\ CallerIdle /\ BotIdle

RequestSpec == RequestInit /\ [][RequestNext]_vars

(***************************************************************************)
(* Properties of the resilient loop                                        *)
(***************************************************************************)

C2_Terminates ==
  /\ [](iteration <= maxIterations)
  /\ [](pc \in {"executeStep", "result", "reassessPlan", "reassessment",
               "createRecoverySolution", "recovery", "recoveryCommand"}
          => currentStepIndex < Len(currentSteps))
  /\ [](pc \in {"verify", "done"}
          => (currentStepIndex >= Len(currentSteps) \/ iteration >= maxIterations))
  /\ [][(pc = "loop" /\ (currentStepIndex >= Len(currentSteps) \/ iteration >= maxIterations))
          => pc' \in {"verify", "done"}]_vars
  /\ <>Terminated

C2_Witness ==
  /\ pc = "done"
  /\ iteration = maxIterations /\ maxIterations >= 2
  /\ currentStepIndex < Len(currentSteps)

\* C3: the loop never raises: whatever the Oracle and the command runner do,
\* the run does not end with an exception.
C3_NeverRaises == pc # "thrown"

\* number of failed iterations since the last successful one
LastSuccessIteration ==
  IF completedSteps = <<>> THEN 0 ELSE completedSteps[Len(completedSteps)].iteration

FailedStreak ==
  Cardinality({i \in 1..Len(failures) : failures[i].iteration > LastSuccessIteration})

C6_IncompleteIsExhausted ==
  (pc = "done" /\ currentStepIndex < Len(currentSteps)) =>
    /\ ~summary.success
    /\ summary.reachedMaxIterations
    /\ summary.iterations = maxIterations

C6_Witness ==
  /\ pc = "done" /\ currentStepIndex < Len(currentSteps)
  /\ Len(completedSteps) >= 1 /\ Len(failures) >= 1

\* C7: the summary's totalSteps is the length of the final plan and
\* successRate is the number 100 * completedSteps.length / totalSteps,
\* between 0 and 100.
C7_SuccessRateDefined ==
  pc = "done" =>
    /\ summary.totalSteps = Len(currentSteps)
    /\ ~summary.successRate.nan
    /\ summary.successRate.num = 100 * Len(summary.completedSteps)
    /\ summary.successRate.den = summary.totalSteps
    /\ 0 <= summary.successRate.num
    /\ summary.successRate.num <= 100 * summary.successRate.den

\* C8: the plan changes only when a reassessment is applied, and then the
\* cursor stays and every step below the cursor is kept.
C8_OnlyTailRewritten ==
  /\ [][currentSteps' # currentSteps => pc = "reassessment"]_vars
  /\ [][pc = "reassessment" =>
          /\ currentStepIndex' = currentStepIndex
          /\ Len(currentSteps') >= currentStepIndex
          /\ \A i \in 1..currentStepIndex : currentSteps'[i] = currentSteps[i]]_vars

C8_Witness ==
  /\ pc = "loop"
  /\ currentStepIndex >= 1
  /\ reassessments >= 1
  /\ currentSteps # steps

\* C9: a reassessment whose Oracle call failed, or whose reply held no
\* parseable numbered step, leaves the whole plan as it was, and the loop
\* goes on.
C9_FailedReassessmentKeepsPlan ==
  [][(pc = "reassessment" /\ pc' # "reassessment"
        /\ (~reassessment.success \/ reassessment.parsed = 0))
       => (currentSteps' = currentSteps /\ pc' = "loop")]_vars

(***************************************************************************)
(* Properties of processUserRequest                                        *)
(***************************************************************************)

\* C10: with skipRedaction = false no text handed to the Oracle (personality,
\* router or agent call) holds a secret value: every such text is a redacted
\* one.
C10_OracleSeesNoSecret ==
  ~skipRedaction =>
    \A i \in 1..Len(oracleCalls) :
      /\ ~HasSecret(oracleCalls[i].text)
      /\ oracleCalls[i].text = Redact(oracleCalls[i].text, <<>>).safeText

(***************************************************************************)
(* Properties of the run's sequencing and history                          *)
(***************************************************************************)

\* C18: within one run at most one Oracle call or command execution is
\* outstanding at any time: a call is made only when none is outstanding, and
\* the plan, the cursor, the counters and the history change only in a step
\* with nothing outstanding at its start or at its end.
C18_OneCallAtATime ==
  /\ [](outstanding \in {0, 1})
  /\ [][outstanding' > outstanding => outstanding = 0]_vars
  /\ [][<<context, currentSteps, currentStepIndex, consecutiveFailures>>'
          # <<context, currentSteps, currentStepIndex, consecutiveFailures>>
          => (outstanding = 0 \/ outstanding' = 0)]_vars
  /\ [](pc \in {"loop", "result", "reassessment", "recovery", "done"} => outstanding = 0)

C18_Witness ==
  /\ pc = "recoveryCommand" /\ outstanding = 1
  /\ iteration >= 2
  /\ Len(failures) >= 2 /\ Len(recoveryAttempts) >= 2

\* C20: completedSteps, failures and recoveryAttempts only grow at the end,
\* entry by entry; reassessments and the cursor never decrease; and every
\* completed entry stays the step at its position of the plan.
C20_AppendOnly ==
  /\ [][/\ Len(completedSteps') >= Len(completedSteps)
        /\ SubSeq(completedSteps', 1, Len(completedSteps)) = completedSteps
        /\ Len(failures') >= Len(failures)
        /\ SubSeq(failures', 1, Len(failures)) = failures
        /\ Len(recoveryAttempts') >= Len(recoveryAttempts)
        /\ SubSeq(recoveryAttempts', 1, Len(recoveryAttempts)) = recoveryAttempts
        /\ reassessments' >= reassessments
        /\ currentStepIndex' >= currentStepIndex]_vars
  /\ [](/\ Len(completedSteps) = currentStepIndex
        /\ currentStepIndex <= Len(currentSteps)
        /\ \A i \in 1..Len(completedSteps) : completedSteps[i].step = currentSteps[i])

C20_Witness ==
  /\ pc = "done"
  /\ Len(completedSteps) >= 1 /\ Len(failures) >= 2
  /\ Len(recoveryAttempts) >= 1 /\ reassessments >= 1

(***************************************************************************)
(* Properties of one iteration of the loop                                 *)
(***************************************************************************)

\* C21: a successful step attempt appends exactly one record (of the step
\* under the cursor) to completedSteps, sets consecutiveFailures to 0 and
\* advances the cursor by exactly 1; failures, recoveryAttempts,
\* reassessments and the plan stay as they were; and the cursor moves in no
\* other way.
C21_SuccessFrame ==
  /\ [][(pc = "result" /\ result.success = "true") =>
          /\ Len(completedSteps') = Len(completedSteps) + 1
          /\ SubSeq(completedSteps', 1, Len(completedSteps)) = completedSteps
          /\ completedSteps'[Len(completedSteps')].step = currentSteps[currentStepIndex + 1]
          /\ consecutiveFailures' = 0
          /\ currentStepIndex' = currentStepIndex + 1
          /\ UNCHANGED <<failures, recoveryAttempts, reassessments, currentSteps>>]_vars
  /\ [][currentStepIndex' # currentStepIndex => (pc = "result" /\ result.success = "true")]_vars

C21_Witness ==
  /\ pc = "loop"
  /\ iteration >= 2
  /\ Len(failures) >= 1 /\ Len(recoveryAttempts) >= 1
  /\ Len(completedSteps) >= 1
  /\ completedSteps[Len(completedSteps)].iteration = iteration
  /\ consecutiveFailures = 0

\* C22: a failed step attempt never advances the cursor; within one failed
\* iteration at most one recovery command is executed (after it the
\* iteration is over); an iteration that triggers reassessment attempts no
\* recovery; and an Oracle error or a non-command reply during recovery just
\* continues to the next iteration.
C22_FailedAttemptRetries ==
  /\ [][((pc = "result" /\ result.success # "true")
          \/ pc \in {"reassessPlan", "reassessment", "createRecoverySolution", "recovery",
                     "recoveryCommand"})
          => currentStepIndex' = currentStepIndex]_vars
  /\ [][pc = "recoveryCommand" => pc' \in {"loop", "thrown"}]_vars
  /\ [][(pc \in {"reassessPlan", "reassessment"}) =>
          (pc' \notin {"createRecoverySolution", "recovery", "recoveryCommand"}
           /\ recoveryAttempts' = recoveryAttempts)]_vars
  /\ [][(pc = "recovery" /\ (~recovery.success \/ recovery.recoveryAction.choice # "terminalCommand"))
          => pc' = "loop"]_vars

\* C23: whenever the Oracle's action for a step is not a command, whatever
\* its kind, the step attempt is recorded as a success and the cursor
\* advances.
C23_NonCommandSucceeds ==
  [][(pc = "result" /\ result.choice \notin {"none", "terminalCommand"}) =>
       (/\ Len(completedSteps') = Len(completedSteps) + 1
        /\ completedSteps'[Len(completedSteps')].status = "success"
        /\ currentStepIndex' = currentStepIndex + 1)]_vars

\* C24: a command result whose status is not success (error, blocked,
\* denied, dry-run or timeout) makes the step attempt a failed one like any
\* other: one entry is appended to failures, consecutiveFailures grows by 1
\* and the cursor stays.
C24_NonSuccessStatusFails ==
  /\ [][(pc = "result" /\ result.choice = "terminalCommand" /\ result.status # "success") =>
          (/\ Len(failures') = Len(failures) + 1
           /\ SubSeq(failures', 1, Len(failures)) = failures
           /\ failures'[Len(failures')].step = currentSteps[currentStepIndex + 1]
           /\ consecutiveFailures' = consecutiveFailures + 1
           /\ currentStepIndex' = currentStepIndex
           /\ completedSteps' = completedSteps)]_vars
  /\ \A status \in CommandStatuses \ {"success"} :
       ExecuteStep(Obj("terminalCommand", Absent, Absent), status).success = "false"

C24_Witness ==
  /\ pc = "reassessPlan"
  /\ result.choice = "terminalCommand" /\ result.status = "blocked"
  /\ Len(failures) >= 2 /\ consecutiveFailures >= 2
  /\ failures[Len(failures)].iteration = iteration

\* C25: the verification runs only after the loop has ended with every step
\* completed and only when requested; whatever its outcome, the run then
\* returns with success, completedSteps, failures and iterations as the loop
\* left them, no further step is executed, and the verification phase does
\* not raise.
C25_VerificationIsAdvisory ==
  /\ [](pc = "verify" => (verify /\ currentStepIndex >= Len(currentSteps)))
  /\ [][pc = "verify" =>
          (/\ pc' = "done"
           /\ UNCHANGED <<completedSteps, failures, iteration, currentSteps, currentStepIndex>>
           /\ summary'.success
           /\ summary'.completedSteps = completedSteps
           /\ summary'.failures = failures
           /\ summary'.iterations = iteration)]_vars

\* C26: in a run configured with dryRun = true no real process is spawned:
\* no step command ends with the status of a spawned process, and no recovery
\* command ends in success.
C26_DryRunLoopSpawnsNothing ==
  /\ [](optionsDryRun => ~(pc = "result" /\ result.status \in Spawned))
  /\ [][(optionsDryRun /\ pc = "recoveryCommand" /\ consecutiveFailures > 0)
          => consecutiveFailures' > 0]_vars

\* C27: each reassessment request holds the whole remaining plan tail, every
\* step from the cursor on and no completed one, together with every
\* failure recorded so far in the run.
C27_ReassessmentSeesAll ==
  pc = "reassessPlan" =>
    LET prompt == ReassessPrompt(SliceFrom(currentSteps, currentStepIndex),
                                 completedSteps, failures)
    IN  /\ Len(prompt.plan) = Len(currentSteps) - currentStepIndex
        /\ \A i \in 1..Len(prompt.plan) : prompt.plan[i] = currentSteps[currentStepIndex + i]
        /\ prompt.recentFailures = failures

(***************************************************************************)
(* Counting invariants of the loop                                         *)
(***************************************************************************)

\* C36: whenever the loop test is about to be evaluated, and in the returned
\* summary, the iteration count is the number of completed records plus the
\* number of failure records: every iteration recorded one success or one
\* failure, never both, never neither.
C36_IterationsAreAccounted ==
  /\ pc = "loop" => iteration = Len(completedSteps) + Len(failures)
  /\ summary.returned =>
        summary.iterations = Len(summary.completedSteps) + summary.failureCount

C36_Witness ==
  /\ summary.returned
  /\ Len(summary.completedSteps) >= 1 /\ summary.failureCount >= 2
  /\ summary.iterations = 3

\* C37: whenever the loop test is about to be evaluated, the cursor is the
\* number of completed records, it is at most the length of the current
\* plan, and the i-th completed record names the i-th step of the current
\* plan for every i below the cursor.
C37_CursorCountsCompleted ==
  pc = "loop" =>
    /\ currentStepIndex = Len(completedSteps)
    /\ currentStepIndex <= Len(currentSteps)
    /\ \A i \in 1..currentStepIndex : completedSteps[i].step = currentSteps[i]

C37_Witness ==
  /\ pc = "loop"
  /\ currentStepIndex >= 1 /\ reassessments >= 1
  /\ currentSteps # steps

\* C38: a reassessment never leaves an empty tail: the steps it returns are
\* at least one, so a plan rewritten by it is strictly longer than the
\* cursor; the cursor reaches the end of the plan only by successful
\* attempts, one completed record per step of the plan; and a summary with
\* success = true has completedSteps.length = totalSteps.
C38_TailNeverEmpty ==
  /\ pc = "reassessment" =>
        /\ Len(reassessment.revisedSteps) > 0
        /\ Len(SliceTo(currentSteps, currentStepIndex) \o reassessment.revisedSteps)
             > currentStepIndex
  /\ (pc = "loop" /\ currentStepIndex >= Len(currentSteps)) =>
        Len(completedSteps) = Len(currentSteps)
  /\ (summary.returned /\ summary.success) =>
        Len(summary.completedSteps) = summary.totalSteps

C38_Witness ==
  /\ summary.returned /\ summary.success
  /\ summary.reassessments >= 1
  /\ summary.totalSteps > Len(steps)

\* C39: in every state of a run, reassessments * maxConsecutiveFailures is
\* at most failures.length: every counted reassessment was preceded by
\* maxConsecutiveFailures failures recorded after the counter was last set
\* back to 0, and those still in the counter are recorded as well.
C39_ReassessmentsArePaidFor ==
  /\ reassessments * maxConsecutiveFailures <= Len(failures)
  /\ pc \in {"loop", "executeStep", "result"} =>
        reassessments * maxConsecutiveFailures + consecutiveFailures <= Len(failures)

C39_Witness ==
  /\ reassessments >= 1 /\ maxConsecutiveFailures >= 2
  /\ reassessments * maxConsecutiveFailures < Len(failures)

\* C40 (as claimed): a returned summary never reports success = true together
\* with reachedMaxIterations = true.
C40_OutcomesExclusive ==
  summary.returned => ~(summary.success /\ summary.reachedMaxIterations)

(***************************************************************************)
(* Properties of the vault and the gate, seen from processUserRequest      *)
(***************************************************************************)

\* C11: substitute is applied exactly at real executions: a command handed
\* to the runner in dry-run mode has not been through substitute, and a
\* command handed to it for a real execution (after a redaction) has.
C11_SubstituteOnlyAtRealExecution ==
  \A i \in 1..Len(executions) :
    /\ executions[i].dryRun => ~executions[i].substituted
    /\ (~executions[i].dryRun /\ ~skipRedaction) => executions[i].substituted

C30_PersonalityShortCircuit ==
  (lumenPersonality.kind = "obj" /\ ~lumenPersonality.shouldProceed) =>
    /\ rpc = "returned"
    /\ response.choice = "lumenPersonality"
    /\ Len(oracleCalls) = 1 /\ oracleCalls[1].layer = "lumenPersonality"
    /\ executions = <<>>
    /\ memoryLog = <<>>
    /\ ~response.commandExecuted /\ ~response.interactionSaved
    /\ response.selectedSchema = "null"

C30_Witness ==
  /\ rpc = "returned"
  /\ lumenPersonality.kind = "obj" /\ ~lumenPersonality.shouldProceed
  /\ ~skipMemory /\ autoApprove /\ ~dryRun
  /\ HasSecret(userQuery)

(***************************************************************************)
(* Properties of the routing and of the memory update                      *)
(***************************************************************************)

\* C31 (as claimed): when the router's choice is not a key of schemaMap, the
\* agent is called with the baseAgent schema, by orchestrateQuery and by
\* processUserRequest, and the object orchestrateQuery returns is marked
\* fallbackUsed = true with the attempted choice.
C31_UnknownChoiceFallsBack ==
  (routingDecision.kind = "obj" /\ routingDecision.choice \notin SchemaMap) =>
    /\ oracleCalls[Len(oracleCalls)].layer = "baseAgent"
    /\ orchestrated.returned =>
          /\ orchestrated.fallbackUsed = "true"
          /\ orchestrated.attemptedChoice = routingDecision.choice

\* C32 (as claimed): _metadata.memory.interactionSaved of the returned object
\* is true only if memorySystem.addInteraction stored the interaction.
C32_SavedFlagIsTruthful ==
  (response.returned /\ response.interactionSaved) => Len(memoryLog) = 1

(***************************************************************************)
(* Properties of executePlanWithResilience                                 *)
(***************************************************************************)
\* C16: for every accepted plan input (a list of plain strings or of step
\* records carrying a description field, given directly or as the steps of a
\* plan object) every step of the plan the loop works on is a string.
C16_StepsAreStrings ==
  LET AcceptedSteps(v) ==
        /\ v.t = "array"
        /\ \A i \in 1..Len(v.items) :
             \/ v.items[i].t = "string"
             \/ v.items[i].description # ""
             \/ v.items[i].stepDescription # ""
  IN  (pc \notin {"plan", "aborted"} /\ (AcceptedSteps(planResponse.top) \/
         (planResponse.top.t = "object" /\ AcceptedSteps(planResponse.steps)))) =>
        \A i \in 1..Len(currentSteps) : IsStringStep(currentSteps[i])

\* C17: for every structurally invalid plan input (neither a list of steps
\* nor an object holding one) the call aborts: the loop is never entered, so
\* no Oracle call is made and no command is executed.
C17_InvalidPlanAborts ==
  ~(\/ planResponse.top.t = "array"
    \/ planResponse.top.t = "object" /\ planResponse.steps.t = "array")
    => (pc \in {"plan", "aborted"} /\ outstanding = 0)


(***************************************************************************)
(* Properties of the run and its caller                                    *)
(***************************************************************************)

\* C15: once the caller has raised the cancellation signal, the loop begins
\* no further step attempt.
C15_CancelStopsLoop ==
  [][cancelRequested => ~(pc = "loop" /\ pc' = "executeStep")]_vars

\* C19: two invocations running in one process share no context: a step of
\* one leaves the history, counters, cursor and plan of the other as they
\* were.
C19_RunsShareNothing ==
  /\ [][otherRun' # otherRun =>
          UNCHANGED <<completedSteps, failures, recoveryAttempts, reassessments,
                      consecutiveFailures, currentStepIndex, currentSteps, iteration>>]_vars
  /\ [][<<completedSteps, failures, recoveryAttempts, reassessments, consecutiveFailures,
          currentStepIndex, currentSteps, iteration>>'
          # <<completedSteps, failures, recoveryAttempts, reassessments, consecutiveFailures,
              currentStepIndex, currentSteps, iteration>>
          => otherRun' = otherRun]_vars

C19_Witness ==
  /\ pc = "recoveryCommand"
  /\ Len(failures) >= 1 /\ Len(recoveryAttempts) >= 1
  /\ otherRun.running
  /\ Len(otherRun.failures) >= 1 /\ otherRun.reassessments = 0
  /\ otherRun.failures[1].step # failures[1].step


(***************************************************************************)
(* Properties of the Telegram bot                                          *)
(***************************************************************************)

\* C14: the bot never executes a command for real: every command it hands
\* to the runner is run in dry-run mode.
C14_BotOnlyDryRuns ==
  \A i \in 1..Len(botExecutions) : botExecutions[i].dryRun

\* C28: a command is executed for real for a chat only inside the handling
\* of an explicit approval (button or affirmative text) from that chat while
\* a command is pending for that chat, and it is that pending command; an
\* update arriving while nothing is pending executes nothing, and a text is
\* then processed as an ordinary query.
C28_ExecutionNeedsApproval ==
  /\ [][Len(botExecutions') > Len(botExecutions) =>
          LET e == botExecutions'[Len(botExecutions')] IN
            \/ e.dryRun /\ e.via = "query"
            \/ /\ ~e.dryRun /\ e.via \in {"text", "button"}
               /\ updates' = updates + 1
               /\ pendingCommands[e.chat].present
               /\ e.command = pendingCommands[e.chat].command
               /\ handlers' = Append(handlers, [kind |-> "approval", chat |-> e.chat,
                                                command |-> e.command])]_vars
  /\ [][(updates' > updates /\ \A c \in Chats : ~pendingCommands[c].present) =>
          /\ botExecutions' = botExecutions
          /\ \/ handlers' = handlers
             \/ \E c \in Chats :
                  handlers' = Append(handlers, [kind |-> "query", chat |-> c, command |-> "none"])]_vars

C28_Witness ==
  /\ \E i \in 1..Len(botExecutions) :
       /\ ~botExecutions[i].dryRun /\ botExecutions[i].via = "text"
       /\ botExecutions[i].chat = "chatB"
  /\ pendingCommands["chatA"].present

\* C29: a pending command older than 5 minutes is never executed: every
\* real execution starts within 5 minutes of the moment its command was
\* stored for approval, whether it was approved by button or by text.
C29_ExpiredNeverExecuted ==
  \A i \in 1..Len(botExecutions) :
    ~botExecutions[i].dryRun =>
      botExecutions[i].started - botExecutions[i].requested <= FiveMinutes

\* C33 (as claimed): each pending command is executed for real at most once:
\* between two real executions for a chat a new command was stored for that
\* chat (botExecutions lists the dry run that stores a command, and each
\* real execution at the moment its handler read the pending command).
C33_ExecutedAtMostOnce ==
  \A i, j \in 1..Len(botExecutions) :
    (/\ i < j
     /\ ~botExecutions[i].dryRun /\ ~botExecutions[j].dryRun
     /\ botExecutions[i].chat = botExecutions[j].chat) =>
      \E k \in (i + 1)..(j - 1) :
        /\ botExecutions[k].via = "query"
        /\ botExecutions[k].chat = botExecutions[i].chat

\* C34 (as claimed): the command executed on a press of the Execute button
\* is the command displayed in the message the button belongs to.
C34_ExecutesTheDisplayedCommand ==
  \A i \in 1..Len(botExecutions) :
    botExecutions[i].via = "button" =>
      botExecutions[i].command = messages[botExecutions[i].message].command

\* C35 (as claimed): the cleanup of an approved command that has finished
\* executing removes no other pending command: when a returning approval
\* handler leaves its chat with nothing pending, what was pending there was
\* the command that handler executed.
C35_CleanupKeepsNewerPending ==
  [][\A c \in Chats :
       (/\ Len(handlers') < Len(handlers)
        /\ pendingCommands[c].present /\ ~pendingCommands'[c].present) =>
         \E i \in 1..Len(handlers) :
           /\ handlers' = RemoveAt(handlers, i)
           /\ handlers[i].kind = "approval" /\ handlers[i].chat = c
           /\ handlers[i].command = pendingCommands[c].command]_vars

====
